---- MODULE Spec2Model ----
(***************************************************************************)
(* Dynamic Quote Generator v2 (src/dom-manipulation/script.js): the quote  *)
(* collection, its localStorage / sessionStorage persistence, the category *)
(* select, add, reset, JSON export and JSON import.                        *)
(*                                                                         *)
(* Data representation.                                                    *)
(*  - A JavaScript string is a sequence of chunks: a chunk is either the   *)
(*    whitespace character " " or a non-empty run of characters that       *)
(*    neither starts nor ends with whitespace.  "" is << >>, " a" is       *)
(*    <<" ", "a">>.  Two strings are === exactly when the sequences are    *)
(*    equal.                                                               *)
(*  - A JSON value is a tagged record (JStr, JNum, JNull, JObj, JArr); an  *)
(*    object keeps its members in insertion order, as JavaScript does.     *)
(*  - A JSON text (what JSON.stringify returns, what JSON.parse and the    *)
(*    storage areas and files hold) is a sequence of lexical tokens:       *)
(*    punctuation, string and number literals, null, whitespace, and a     *)
(*    token that is no JSON at all.                                        *)
(***************************************************************************)
EXTENDS Integers, Sequences, FiniteSets, TLC

VARIABLES
    pc,              \* "boot" before initApp() has run, "ready" after
    quotes,          \* the in-memory quotes array
    localStorage,    \* the origin's localStorage: key -> item
    sessionStorage,  \* the tab's sessionStorage: key -> item
    categorySelect,  \* the <option> children of #categorySelect
    quoteDisplay,    \* textContent of #quoteDisplay
    alertMsg,        \* the alert() raised by the latest handler, if any
    download         \* the file the latest handler offered for download, if any

vars == <<pc, quotes, localStorage, sessionStorage, categorySelect, quoteDisplay,
          alertMsg, download>>

(***************************************************************************)
(* Bounds                                                                  *)
(***************************************************************************)
\* Handlers that would grow the quotes array beyond this length are not
\* taken.
MaxQuotes == 6
\* The longest collection of the export / import round trip.
MaxExported == 2

(***************************************************************************)
(* JSON values                                                             *)
(***************************************************************************)
JStr(s) == [t |-> "string", s |-> s]
JNum(n) == [t |-> "number", n |-> n]
JNull == [t |-> "null"]
JObj(m) == [t |-> "object", m |-> m]
JArr(a) == [t |-> "array", a |-> a]
\* The value of a property (or variable) that does not exist.
Undefined == [t |-> "undefined"]

Member(key, value) == [k |-> key, v |-> value]

\* The object literal { text: ..., category: ... }.
QuoteObj(text, category) ==
    JObj(<<Member(<<"text">>, JStr(text)), Member(<<"category">>, JStr(category))>>)

DEFAULT_QUOTES ==
    << QuoteObj(<<"The best way to get started is to quit talking and begin doing.">>,
                <<"Motivation">>),
       QuoteObj(<<"Success is not in what you have, but who you are.">>,
                <<"Success">>),
       QuoteObj(<<"Happiness depends upon ourselves.">>, <<"Happiness">>),
       QuoteObj(<<"Be the change that you wish to see in the world.">>,
                <<"Inspiration">>) >>

\* obj.key for a JSON value: the member's value, undefined when the value is
\* not an object with that member (numbers, strings and arrays have no
\* property named text, category or id).
Get(obj, key) ==
    IF obj.t = "object" /\ \E i \in 1..Len(obj.m) : obj.m[i].k = key
    THEN LET i == CHOOSE j \in 1..Len(obj.m) : obj.m[j].k = key IN obj.m[i].v
    ELSE Undefined

\* typeof v
TypeOf(v) == IF v.t \in {"null", "array"} THEN "object" ELSE v.t

\* ToBoolean(v), as the && operator applies it.
Truthy(v) ==
    CASE v.t \in {"null", "undefined"} -> FALSE
      [] v.t = "string" -> v.s # <<>>
      [] v.t = "number" -> v.n # 0
      [] OTHER -> TRUE

\* String.prototype.trim(): leading and trailing whitespace removed.
RECURSIVE TrimStart(_)
TrimStart(s) == IF s # <<>> /\ Head(s) = " " THEN TrimStart(Tail(s)) ELSE s

RECURSIVE TrimEnd(_)
TrimEnd(s) ==
    IF s # <<>> /\ s[Len(s)] = " " THEN TrimEnd(SubSeq(s, 1, Len(s) - 1)) ELSE s

\* The value of the input taken as it is.
untrimmed(s) == s

trim(s) == TrimEnd(TrimStart(s))

(***************************************************************************)
(* JSON texts                                                              *)
(***************************************************************************)
P(c) == [p |-> c]
StrTok(s) == [str |-> s]
NumTok(n) == [num |-> n]
NullTok == [lit |-> "null"]
\* A line break followed by ind spaces; one space.
NlTok(ind) == [nl |-> ind]
SpTok == [sp |-> " "]
\* Characters that start no JSON token.
BadTok == [bad |-> "oops"]

IsWs(tok) == "nl" \in DOMAIN tok \/ "sp" \in DOMAIN tok
IsP(tok, c) == "p" \in DOMAIN tok /\ tok.p = c

\* JSON.stringify(value, null, gap): the text of a value, indented by gap
\* spaces per level when gap > 0 (ind is the indentation of the enclosing
\* level).
Newline(gap, ind) == IF gap = 0 THEN <<>> ELSE <<NlTok(ind)>>
Colon(gap) == IF gap = 0 THEN <<P(":")>> ELSE <<P(":"), SpTok>>

RECURSIVE SerializeValue(_, _, _)
RECURSIVE SerializeMembers(_, _, _, _)
RECURSIVE SerializeElements(_, _, _, _)

SerializeMembers(m, i, gap, ind) ==
    IF i > Len(m) THEN <<>>
    ELSE Newline(gap, ind) \o <<StrTok(m[i].k)>> \o Colon(gap)
         \o SerializeValue(m[i].v, gap, ind)
         \o (IF i < Len(m) THEN <<P(",")>> ELSE <<>>)
         \o SerializeMembers(m, i + 1, gap, ind)

SerializeElements(a, i, gap, ind) ==
    IF i > Len(a) THEN <<>>
    ELSE Newline(gap, ind) \o SerializeValue(a[i], gap, ind)
         \o (IF i < Len(a) THEN <<P(",")>> ELSE <<>>)
         \o SerializeElements(a, i + 1, gap, ind)

SerializeValue(v, gap, ind) ==
    CASE v.t = "string" -> <<StrTok(v.s)>>
      [] v.t = "number" -> <<NumTok(v.n)>>
      [] v.t = "null" -> <<NullTok>>
      [] v.t = "object" ->
            IF v.m = <<>> THEN <<P("{"), P("}")>>
            ELSE <<P("{")>> \o SerializeMembers(v.m, 1, gap, ind + gap)
                 \o Newline(gap, ind) \o <<P("}")>>
      [] v.t = "array" ->
            IF v.a = <<>> THEN <<P("["), P("]")>>
            ELSE <<P("[")>> \o SerializeElements(v.a, 1, gap, ind + gap)
                 \o Newline(gap, ind) \o <<P("]")>>

JSONstringify(v, gap) == SerializeValue(v, gap, 0)

\* JSON.parse(text): [ok |-> TRUE, v |-> value], or [ok |-> FALSE] where
\* JSON.parse throws a SyntaxError.
Failed == [ok |-> FALSE]
Parsed(v, next) == [ok |-> TRUE, v |-> v, next |-> next]

RECURSIVE SkipWs(_, _)
SkipWs(toks, i) ==
    IF i <= Len(toks) /\ IsWs(toks[i]) THEN SkipWs(toks, i + 1) ELSE i

\* Object members: a later member with the same key replaces the value of
\* the earlier one.
PutMember(m, key, value) ==
    IF \E i \in 1..Len(m) : m[i].k = key
    THEN [i \in 1..Len(m) |-> IF m[i].k = key THEN Member(key, value) ELSE m[i]]
    ELSE Append(m, Member(key, value))

RECURSIVE ParseValue(_, _)
RECURSIVE ParseMembers(_, _, _)
RECURSIVE ParseElements(_, _, _)

ParseMembers(toks, i, acc) ==
    LET j == SkipWs(toks, i) IN
    IF j > Len(toks) \/ "str" \notin DOMAIN toks[j] THEN Failed
    ELSE LET c == SkipWs(toks, j + 1) IN
         IF c > Len(toks) \/ ~IsP(toks[c], ":") THEN Failed
         ELSE LET r == ParseValue(toks, c + 1) IN
              IF ~r.ok THEN Failed
              ELSE LET n == SkipWs(toks, r.next)
                       m == PutMember(acc, toks[j].str, r.v)
                   IN  IF n > Len(toks) THEN Failed
                       ELSE IF IsP(toks[n], ",") THEN ParseMembers(toks, n + 1, m)
                       ELSE IF IsP(toks[n], "}") THEN Parsed(JObj(m), n + 1)
                       ELSE Failed

ParseElements(toks, i, acc) ==
    LET r == ParseValue(toks, i) IN
    IF ~r.ok THEN Failed
    ELSE LET n == SkipWs(toks, r.next) IN
         IF n > Len(toks) THEN Failed
         ELSE IF IsP(toks[n], ",") THEN ParseElements(toks, n + 1, Append(acc, r.v))
         ELSE IF IsP(toks[n], "]") THEN Parsed(JArr(Append(acc, r.v)), n + 1)
         ELSE Failed

ParseValue(toks, i) ==
    LET j == SkipWs(toks, i) IN
    IF j > Len(toks) THEN Failed
    ELSE LET tok == toks[j] IN
         IF "str" \in DOMAIN tok THEN Parsed(JStr(tok.str), j + 1)
         ELSE IF "num" \in DOMAIN tok THEN Parsed(JNum(tok.num), j + 1)
         ELSE IF "lit" \in DOMAIN tok THEN Parsed(JNull, j + 1)
         ELSE IF IsP(tok, "[") THEN
              LET n == SkipWs(toks, j + 1) IN
              IF n <= Len(toks) /\ IsP(toks[n], "]") THEN Parsed(JArr(<<>>), n + 1)
              ELSE ParseElements(toks, j + 1, <<>>)
         ELSE IF IsP(tok, "{") THEN
              LET n == SkipWs(toks, j + 1) IN
              IF n <= Len(toks) /\ IsP(toks[n], "}") THEN Parsed(JObj(<<>>), n + 1)
              ELSE ParseMembers(toks, j + 1, <<>>)
         ELSE Failed

JSONparse(text) ==
    LET r == ParseValue(text, 1) IN
    IF r.ok /\ SkipWs(text, r.next) = Len(text) + 1
    THEN [ok |-> TRUE, v |-> r.v]
    ELSE Failed

(***************************************************************************)
(* Storage areas                                                           *)
(***************************************************************************)
LS_KEY == "dq_quotes_v1"
SS_LAST_QUOTE == "dq_last_quote"
\* The key another draft of the program (src/unnamed/part_001) stores its
\* quotes under, in the same origin's localStorage.
OTHER_LS_KEY == "quotes"

\* What getItem returns: null for a key that was never set, else the text.
NoItem == [has |-> FALSE, text |-> <<>>]
Item(text) == [has |-> TRUE, text |-> text]

\* !raw for a getItem result: null and "" are falsy.
Falsy(raw) == ~raw.has \/ raw.text = <<>>

(***************************************************************************)
(* Persistence functions                                                   *)
(***************************************************************************)
\* Simple validator for quote objects.
isValidQuote(obj) ==
    /\ Truthy(obj)
    /\ TypeOf(Get(obj, <<"text">>)) = "string"
    /\ TypeOf(Get(obj, <<"category">>)) = "string"

\* saveQuotes(): localStorage after setItem(LS_KEY, JSON.stringify(quotes)).
\* setItem is taken to succeed (the catch branch only logs and changes no
\* state).
saveQuotesWrongKey(ls, q) ==
    [ls EXCEPT ![OTHER_LS_KEY] = Item(JSONstringify(JArr(q), 0))]

saveQuotes(ls, q) == [ls EXCEPT ![LS_KEY] = Item(JSONstringify(JArr(q), 0))]

\* loadQuotes(): the quotes array and localStorage it leaves.
UseDefaults(ls) == [quotes |-> DEFAULT_QUOTES, ls |-> saveQuotes(ls, DEFAULT_QUOTES)]

loadQuotes(ls) ==
    LET raw == ls[LS_KEY] IN
    IF Falsy(raw) THEN UseDefaults(ls)
    ELSE LET parsed == JSONparse(raw.text) IN
         IF ~parsed.ok THEN UseDefaults(ls)
         ELSE IF parsed.v.t = "array"
                 /\ \A i \in 1..Len(parsed.v.a) : isValidQuote(parsed.v.a[i])
              THEN [quotes |-> parsed.v.a, ls |-> ls]
              ELSE UseDefaults(ls)

(***************************************************************************)
(* UI population                                                           *)
(***************************************************************************)
Option(value, textContent) == [value |-> value, textContent |-> textContent]

\* [...new Set(quotes.map(q => q.category))]: each category once, in the
\* order of its first occurrence.
RECURSIVE SetOf(_, _, _)
SetOf(q, i, acc) ==
    IF i > Len(q) THEN acc
    ELSE LET c == Get(q[i], <<"category">>) IN
         SetOf(q, i + 1,
               IF \E j \in 1..Len(acc) : acc[j] = c THEN acc ELSE Append(acc, c))

OptionsOf(categories) ==
    [i \in 1..Len(categories) |-> Option(categories[i].s, categories[i].s)]

\* The drafts src/unnamed/part_000 and part_001: no placeholder.
populateCategoriesNoPlaceholder(q) == OptionsOf(SetOf(q, 1, <<>>))

\* populateCategories(): the options of #categorySelect it leaves.
populateCategories(q) ==
    LET categories == SetOf(q, 1, <<>>) IN
    IF Len(categories) = 0 THEN <<Option(<<>>, <<"No categories">>)>>
    ELSE OptionsOf(categories)

(***************************************************************************)
(* Display                                                                 *)
(***************************************************************************)
\* displayQuote(): `"${quoteObj.text}" -- (${quoteObj.category})`
displayQuote(quoteObj) ==
    <<"''">> \o Get(quoteObj, <<"text">>).s \o <<"'' -- (">>
    \o Get(quoteObj, <<"category">>).s \o <<")">>

\* restoreLastQuoteFromSession(): the text of #quoteDisplay it leaves.
restoreLastQuoteFromSession(ss, display) ==
    LET raw == ss[SS_LAST_QUOTE] IN
    IF Falsy(raw) THEN display
    ELSE LET obj == JSONparse(raw.text) IN
         IF obj.ok /\ isValidQuote(obj.v) THEN displayQuote(obj.v) ELSE display

NoAlert == [msg |-> ""]
Alert(msg) == [msg |-> msg]

(***************************************************************************)
(* Inputs                                                                  *)
(***************************************************************************)
\* What the user may have typed into the two inputs of the add form.
TextInputs == { <<>>, <<" ">>, <<" ", "a", " ">> }
CategoryInputs == { <<" ">>, <<"x">>, <<"y", " ">> }

IdQuote(id, text, category) ==
    JObj(<<Member(<<"id">>, JNum(id)), Member(<<"text">>, JStr(text)),
           Member(<<"category">>, JStr(category))>>)

\* JSON texts that are not a quotes array.
Garbage == <<BadTok>>
Truncated == <<P("["), P("{"), StrTok(<<"text">>), P(":"), StrTok(<<"a">>)>>
NotAnArray == JSONstringify(QuoteObj(<<"a">>, <<"x">>), 0)
MissingCategory ==
    JSONstringify(JArr(<<QuoteObj(<<"a">>, <<"y">>),
                         JObj(<<Member(<<"text">>, JStr(<<"a">>))>>)>>), 0)
NumberText ==
    JSONstringify(JArr(<<JObj(<<Member(<<"text">>, JNum(5)),
                                Member(<<"category">>, JStr(<<"x">>))>>)>>), 0)
NullItem == JSONstringify(JArr(<<JNull>>), 0)
BadTexts == {Garbage, Truncated, NotAnArray, MissingCategory, NumberText, NullItem}

\* JSON texts that isValidQuote accepts as a quotes array.
EmptyArray == JSONstringify(JArr(<<>>), 0)
EmptyText == JSONstringify(JArr(<<QuoteObj(<<>>, <<"x">>)>>), 0)
OneQuote == JSONstringify(JArr(<<QuoteObj(<<"a">>, <<"x">>)>>), 0)
SameId ==
    JSONstringify(JArr(<<IdQuote(1, <<"a">>, <<"x">>), IdQuote(1, <<"a">>, <<"y">>),
                         IdQuote(2, <<"a">>, <<"x">>)>>), 0)
GoodTexts == {EmptyArray, EmptyText, OneQuote, SameId}

\* A stored entry written with indentation: the same array as OneQuote in a
\* different text.
Indented == JSONstringify(JArr(<<QuoteObj(<<"a">>, <<"x">>)>>), 2)

\* What localStorage may hold under LS_KEY when the page is opened.
InitialItems ==
    {NoItem, Item(<<>>), Item(JSONstringify(JArr(DEFAULT_QUOTES), 0))}
    \cup {Item(text) : text \in BadTexts \cup GoodTexts \cup {Indented}}

\* What sessionStorage may hold under SS_LAST_QUOTE when the page is opened.
InitialLastQuotes ==
    {NoItem, Item(JSONstringify(QuoteObj(<<"a">>, <<"x">>), 0))}

\* The file chosen in the import dialog: none, one that cannot be read, or
\* one with the given content.
NoFile == [kind |-> "none"]
UnreadableFile == [kind |-> "unreadable"]
TextFile(text) == [kind |-> "text", text |-> text]

ImportFiles ==
    {NoFile, UnreadableFile} \cup {TextFile(text) : text \in BadTexts \cup GoodTexts}
    \cup (IF download.has THEN {TextFile(download.text)} ELSE {})

(***************************************************************************)
(* Initial state: the script has been loaded, initApp() has not run yet    *)
(***************************************************************************)
Init ==
    /\ pc = "boot"
    /\ quotes = <<>>
    /\ \E item \in InitialItems :
           localStorage = [k \in {LS_KEY, OTHER_LS_KEY} |->
                              IF k = LS_KEY THEN item ELSE NoItem]
    /\ \E item \in InitialLastQuotes :
           sessionStorage = [k \in {SS_LAST_QUOTE} |-> item]
    /\ categorySelect = <<>>
    /\ quoteDisplay = <<>>
    /\ alertMsg = NoAlert
    /\ download = NoItem

(***************************************************************************)
(* initApp()                                                               *)
(***************************************************************************)
InitApp ==
    /\ pc = "boot"
    /\ LET loaded == loadQuotes(localStorage) IN
       /\ quotes' = loaded.quotes
       /\ localStorage' = loaded.ls
       /\ categorySelect' = populateCategories(loaded.quotes)
    /\ quoteDisplay' = restoreLastQuoteFromSession(sessionStorage, quoteDisplay)
    /\ pc' = "ready"
    /\ UNCHANGED <<sessionStorage, alertMsg, download>>

(***************************************************************************)
(* showRandomQuote(): selected is categorySelect.value, pick the index     *)
(* Math.random() yields                                                    *)
(***************************************************************************)
ShowRandomQuote(selected, pick) ==
    /\ pc = "ready"
    /\ \E i \in 1..Len(categorySelect) : categorySelect[i].value = selected
    /\ LET filteredQuotes ==
               SelectSeq(quotes, LAMBDA q : Get(q, <<"category">>) = JStr(selected))
       IN  IF Len(filteredQuotes) = 0
           THEN /\ pick = 1
                /\ quoteDisplay' = <<"No quotes available for this category.">>
                /\ UNCHANGED sessionStorage
           ELSE /\ pick \in 1..Len(filteredQuotes)
                /\ quoteDisplay' = displayQuote(filteredQuotes[pick])
                /\ sessionStorage' =
                       [sessionStorage EXCEPT ![SS_LAST_QUOTE] =
                            Item(JSONstringify(filteredQuotes[pick], 0))]
    /\ alertMsg' = NoAlert
    /\ download' = NoItem
    /\ UNCHANGED <<pc, quotes, localStorage, categorySelect>>

(***************************************************************************)
(* addQuoteFromInputs(textInput, categoryInput)                            *)
(***************************************************************************)
\* The draft src/unnamed/part_001 has no duplicate check.
neverDuplicate(q, newQuote) == FALSE

\* quotes.some(q => q.text === newQuote.text && q.category === newQuote.category)
duplicate(q, newQuote) ==
    \E i \in 1..Len(q) :
        /\ Get(q[i], <<"text">>) = Get(newQuote, <<"text">>)
        /\ Get(q[i], <<"category">>) = Get(newQuote, <<"category">>)

AddQuoteFromInputs(textInput, categoryInput) ==
    /\ pc = "ready"
    /\ LET newText == trim(textInput)
           newCategory == trim(categoryInput)
           newQuote == QuoteObj(newText, newCategory)
       IN  IF newText = <<>> \/ newCategory = <<>>
           THEN /\ alertMsg' = Alert("Please enter both a quote and a category!")
                /\ UNCHANGED <<quotes, localStorage, categorySelect, quoteDisplay,
                               sessionStorage>>
           ELSE IF duplicate(quotes, newQuote)
           THEN /\ alertMsg' = Alert("This quote already exists.")
                /\ UNCHANGED <<quotes, localStorage, categorySelect, quoteDisplay,
                               sessionStorage>>
           ELSE /\ Len(quotes) < MaxQuotes
                /\ quotes' = Append(quotes, newQuote)
                /\ localStorage' = saveQuotes(localStorage, quotes')
                /\ categorySelect' = populateCategories(quotes')
                /\ quoteDisplay' = displayQuote(newQuote)
                /\ sessionStorage' =
                       [sessionStorage EXCEPT ![SS_LAST_QUOTE] =
                            Item(JSONstringify(newQuote, 0))]
                /\ alertMsg' = NoAlert
    /\ download' = NoItem
    /\ UNCHANGED pc

(***************************************************************************)
(* The "Reset to Defaults" button: confirmed is what confirm() returns     *)
(***************************************************************************)
ResetToDefaults(confirmed) ==
    /\ pc = "ready"
    /\ IF confirmed
       THEN /\ quotes' = DEFAULT_QUOTES
            /\ localStorage' = saveQuotes(localStorage, quotes')
            /\ categorySelect' = populateCategories(quotes')
            /\ quoteDisplay' =
                   displayQuote(QuoteObj(<<"Quotes reset to defaults.">>, <<"System">>))
            /\ sessionStorage' = [sessionStorage EXCEPT ![SS_LAST_QUOTE] = NoItem]
       ELSE UNCHANGED <<quotes, localStorage, categorySelect, quoteDisplay,
                        sessionStorage>>
    /\ alertMsg' = NoAlert
    /\ download' = NoItem
    /\ UNCHANGED pc

(***************************************************************************)
(* exportQuotesToJson()                                                    *)
(***************************************************************************)
ExportQuotesToJson ==
    /\ pc = "ready"
    /\ download' = Item(JSONstringify(JArr(quotes), 2))
    /\ alertMsg' = NoAlert
    /\ UNCHANGED <<pc, quotes, localStorage, sessionStorage, categorySelect,
                   quoteDisplay>>

(***************************************************************************)
(* importFromJsonFile(event)                                               *)
(***************************************************************************)
\* quotes.some(existing => existing.text === q.text
\*                         && existing.category === q.category)
exists(q, item) ==
    \E i \in 1..Len(q) :
        /\ Get(q[i], <<"text">>) = Get(item, <<"text">>)
        /\ Get(q[i], <<"category">>) = Get(item, <<"category">>)

\* The draft src/unnamed/part_001: quotes.push(...importedQuotes).
importMergeAppendAll(q, imported) ==
    [quotes |-> q \o imported, added |-> Len(imported)]

\* A merge that looks for duplicates only among the quotes held before the
\* import.
importMergeNoRecheck(q, imported) ==
    LET new == SelectSeq(imported, LAMBDA item : ~exists(q, item)) IN
    [quotes |-> q \o new, added |-> Len(new)]

\* imported.forEach(q => { if (!exists) { quotes.push(q); added++; } }):
\* the quotes array and the counter it leaves.
RECURSIVE forEachImported(_, _, _, _)
forEachImported(q, imported, i, added) ==
    IF i > Len(imported) THEN [quotes |-> q, added |-> added]
    ELSE IF exists(q, imported[i])
         THEN forEachImported(q, imported, i + 1, added)
         ELSE forEachImported(Append(q, imported[i]), imported, i + 1, added + 1)

importMerge(q, imported) == forEachImported(q, imported, 1, 0)

\* reader.onload: what the handler leaves of the quotes array, localStorage
\* and the category options, and the alert it raises.
onload(q, ls, options, text) ==
    LET imported == JSONparse(text)
        kept(msg) == [quotes |-> q, ls |-> ls, options |-> options, alert |-> msg]
    IN  IF ~imported.ok
        THEN kept(Alert("Failed to import JSON. Make sure the file is valid JSON."))
        ELSE IF ~(imported.v.t = "array")
                \/ ~(\A i \in 1..Len(imported.v.a) : isValidQuote(imported.v.a[i]))
        THEN kept(Alert("Invalid JSON format. File must be an array of objects with 'text' and 'category' strings."))
        ELSE LET merged == importMerge(q, imported.v.a)
                 done == [msg |-> "Import complete. new quote(s) added.",
                          added |-> merged.added]
             IN  IF merged.added > 0
                 THEN [quotes |-> merged.quotes,
                       ls |-> saveQuotes(ls, merged.quotes),
                       options |-> populateCategories(merged.quotes),
                       alert |-> done]
                 ELSE [quotes |-> merged.quotes, ls |-> ls, options |-> options,
                       alert |-> done]

\* The FileReader reads the file and calls onload later; what onload does
\* depends only on the file's content and on the state it runs in, so the
\* action is the handler's run at that time.
ImportFromJsonFile(file) ==
    /\ pc = "ready"
    /\ download' = NoItem
    /\ UNCHANGED <<pc, sessionStorage, quoteDisplay>>
    /\ IF file.kind = "none"
       THEN /\ alertMsg' = NoAlert
            /\ UNCHANGED <<quotes, localStorage, categorySelect>>
       ELSE IF file.kind = "unreadable"
       THEN /\ alertMsg' = Alert("Failed to read file.")
            /\ UNCHANGED <<quotes, localStorage, categorySelect>>
       ELSE LET r == onload(quotes, localStorage, categorySelect, file.text) IN
            /\ Len(r.quotes) <= MaxQuotes
            /\ quotes' = r.quotes
            /\ localStorage' = r.ls
            /\ categorySelect' = r.options
            /\ alertMsg' = r.alert

(***************************************************************************)
(* The program                                                             *)
(***************************************************************************)
Next ==
    \/ InitApp
    \/ \E selected \in {categorySelect[i].value : i \in 1..Len(categorySelect)},
          pick \in 1..MaxQuotes :
           ShowRandomQuote(selected, pick)
    \/ \E textInput \in TextInputs, categoryInput \in CategoryInputs :
           AddQuoteFromInputs(textInput, categoryInput)
    \/ \E confirmed \in BOOLEAN : ResetToDefaults(confirmed)
    \/ ExportQuotesToJson
    \/ \E file \in ImportFiles : ImportFromJsonFile(file)

Spec == Init /\ [][Next]_vars

(***************************************************************************)
(* Synchronisation with the remote source (the Merge Engine).  The drafts  *)
(* under src/ hold no merge; this is the algorithm as the specification    *)
(* states it.                                                              *)
(***************************************************************************)
\* The local record with the id of r: the index of the first one, 0 if none.
FindById(q, r) ==
    IF \E i \in 1..Len(q) : Get(q[i], <<"id">>) = Get(r, <<"id">>)
    THEN CHOOSE i \in 1..Len(q) :
             /\ Get(q[i], <<"id">>) = Get(r, <<"id">>)
             /\ \A j \in 1..(i - 1) : Get(q[j], <<"id">>) # Get(r, <<"id">>)
    ELSE 0

\* For each remote record in snapshot order: append it when no local record
\* has its id, leave an identical local record alone, overwrite a different
\* one in place.  The collection and the count of records affected.
RECURSIVE mergeSnapshot(_, _, _, _)
mergeSnapshot(q, snapshot, i, affected) ==
    IF i > Len(snapshot) THEN [quotes |-> q, affected |-> affected]
    ELSE LET r == snapshot[i]
             at == FindById(q, r)
         IN  IF at = 0
             THEN mergeSnapshot(Append(q, r), snapshot, i + 1, affected + 1)
             ELSE IF q[at] = r
             THEN mergeSnapshot(q, snapshot, i + 1, affected)
             ELSE mergeSnapshot([q EXCEPT ![at] = r], snapshot, i + 1, affected + 1)

\* Remote snapshots, already mapped to the Quote Record shape.
RemoteSnapshots ==
    { <<IdQuote(1, <<"a">>, <<"y">>)>>, <<IdQuote(5, <<"a">>, <<"x">>)>> }

\* The merge step of one sync cycle: persist, recompute the categories and
\* notify only when a record was appended or overwritten.
SyncMerge(snapshot) ==
    /\ pc = "ready"
    /\ LET merged == mergeSnapshot(quotes, snapshot, 1, 0) IN
       /\ Len(merged.quotes) <= MaxQuotes
       /\ quotes' = merged.quotes
       /\ IF merged.affected > 0
          THEN /\ localStorage' = saveQuotes(localStorage, merged.quotes)
               /\ categorySelect' = populateCategories(merged.quotes)
               /\ alertMsg' = [msg |-> "Quotes synced with the server.",
                               affected |-> merged.affected]
          ELSE /\ alertMsg' = NoAlert
               /\ UNCHANGED <<localStorage, categorySelect>>
    /\ download' = NoItem
    /\ UNCHANGED <<pc, sessionStorage, quoteDisplay>>

NextSync ==
    \/ Next
    \/ \E snapshot \in RemoteSnapshots : SyncMerge(snapshot)

SpecSync == Init /\ [][NextSync]_vars

(***************************************************************************)
(* The export / import round trip: a page that holds a collection exports  *)
(* it; the file is imported into the same page, or into the page of a      *)
(* browser whose stored collection is empty.                               *)
(***************************************************************************)
ExportedRecords ==
    { QuoteObj(<<"a">>, <<"x">>), QuoteObj(<<>>, <<"x">>),
      IdQuote(1, <<"a">>, <<"x">>), IdQuote(2, <<"a">>, <<"x">>),
      IdQuote(1, <<"a">>, <<"y">>) }

ExportedCollections ==
    UNION { [1..n -> ExportedRecords] : n \in 0..MaxExported }

InitRoundTrip ==
    /\ pc = "boot"
    /\ quotes = <<>>
    /\ \E C \in ExportedCollections :
           localStorage = [k \in {LS_KEY, OTHER_LS_KEY} |->
                              IF k = LS_KEY THEN Item(JSONstringify(JArr(C), 0))
                              ELSE NoItem]
    /\ sessionStorage = [k \in {SS_LAST_QUOTE} |-> NoItem]
    /\ categorySelect = <<>>
    /\ quoteDisplay = <<>>
    /\ alertMsg = NoAlert
    /\ download = NoItem

\* The downloaded file is taken to a browser whose localStorage holds an
\* empty collection, and the page is opened there.
OpenElsewhere ==
    /\ pc = "ready"
    /\ download.has
    /\ pc' = "boot"
    /\ quotes' = <<>>
    /\ localStorage' = [k \in {LS_KEY, OTHER_LS_KEY} |->
                           IF k = LS_KEY THEN Item(EmptyArray) ELSE NoItem]
    /\ sessionStorage' = [k \in {SS_LAST_QUOTE} |-> NoItem]
    /\ categorySelect' = <<>>
    /\ quoteDisplay' = <<>>
    /\ alertMsg' = NoAlert
    /\ UNCHANGED download

NextRoundTrip ==
    \/ InitApp
    \/ ExportQuotesToJson
    \/ OpenElsewhere
    \/ download.has /\ ImportFromJsonFile(TextFile(download.text))

SpecRoundTrip == InitRoundTrip /\ [][NextRoundTrip]_vars

(***************************************************************************)
(* Properties                                                              *)
(***************************************************************************)
\* The Quote Record shape of the data model: an object whose text and
\* category are both non-empty strings.
QuoteRecordShape(v) ==
    /\ v.t = "object"
    /\ \E i \in 1..Len(v.m) : v.m[i].k = <<"text">> /\ v.m[i].v.t = "string"
                              /\ v.m[i].v.s # <<>>
    /\ \E i \in 1..Len(v.m) : v.m[i].k = <<"category">> /\ v.m[i].v.t = "string"
                              /\ v.m[i].v.s # <<>>

\* A text that is an ordered sequence of Quote Records.
QuoteRecordArray(text) ==
    LET parsed == JSONparse(text) IN
    /\ parsed.ok
    /\ parsed.v.t = "array"
    /\ \A i \in 1..Len(parsed.v.a) : QuoteRecordShape(parsed.v.a[i])

\* A text the import accepts: an array of objects that isValidQuote admits.
AcceptedArray(text) ==
    LET parsed == JSONparse(text) IN
    /\ parsed.ok
    /\ parsed.v.t = "array"
    /\ \A i \in 1..Len(parsed.v.a) : isValidQuote(parsed.v.a[i])

\* The accepted ones among the files of the import dialog.
AcceptedSamples == {text \in BadTexts \cup GoodTexts : AcceptedArray(text)}
AcceptedFiles ==
    {TextFile(text) : text \in AcceptedSamples}
    \cup (IF download.has /\ AcceptedArray(download.text)
          THEN {TextFile(download.text)} ELSE {})

SameTextAndCategory(a, b) ==
    /\ Get(a, <<"text">>) = Get(b, <<"text">>)
    /\ Get(a, <<"category">>) = Get(b, <<"category">>)

NoDuplicates(q) ==
    \A i, j \in 1..Len(q) : SameTextAndCategory(q[i], q[j]) => i = j

\* A string that is empty once its whitespace is trimmed.
IsBlank(s) == \A i \in 1..Len(s) : s[i] = " "

ImportComplete(n) == [msg |-> "Import complete. new quote(s) added.", added |-> n]

\* C1: load() never fails outward: when the stored entry is absent, is not
\* parseable or is not an array of Quote Records (text and category both
\* non-empty strings), the collection after load is the default set and the
\* stored entry has been overwritten with the default set; only a valid
\* stored collection is loaded as it is.
C1_LoadFallsBackToDefaults ==
    [][InitApp =>
          LET raw == localStorage[LS_KEY] IN
          IF raw.has /\ QuoteRecordArray(raw.text)
          THEN /\ JArr(quotes') = JSONparse(raw.text).v
               /\ localStorage'[LS_KEY] = raw
          ELSE /\ quotes' = DEFAULT_QUOTES
               /\ localStorage'[LS_KEY].has
               /\ JSONparse(localStorage'[LS_KEY].text)
                      = [ok |-> TRUE, v |-> JArr(DEFAULT_QUOTES)]]_vars

\* C2: a failed import leaves the store untouched: for a file that is not
\* parseable as JSON or is not an array of Quote Records, the collection and
\* the stored entry after the import are what they were before it.
C2_FailedImportLeavesStore ==
    [][\A file \in ImportFiles :
          (file.kind = "text" /\ ~QuoteRecordArray(file.text)
           /\ ImportFromJsonFile(file))
          => UNCHANGED <<quotes, localStorage>>]_vars

\* C3: import suppresses duplicates by (text, category): a record of an
\* accepted file is appended, in input order, exactly when no record of the
\* collection and no earlier record of the file has its text and category,
\* and the count reported is the number of records appended.
AppendedBy(q, imported) ==
    LET fresh(i) ==
            /\ \A k \in 1..Len(q) : ~SameTextAndCategory(q[k], imported[i])
            /\ \A j \in 1..(i - 1) : ~SameTextAndCategory(imported[j], imported[i])
        kept == SelectSeq([i \in 1..Len(imported) |-> i], fresh)
    IN  [n \in 1..Len(kept) |-> imported[kept[n]]]

C3_ImportSuppressesDuplicates ==
    [][\A file \in AcceptedFiles :
          ImportFromJsonFile(file)
          => /\ quotes' = quotes \o AppendedBy(quotes, JSONparse(file.text).v.a)
             /\ alertMsg' = ImportComplete(Len(quotes') - Len(quotes))]_vars

\* An import into an empty collection has appended the first two records of
\* a file and suppressed its third, which repeats the first.
C3_Witness ==
    /\ alertMsg = ImportComplete(2)
    /\ quotes = <<IdQuote(1, <<"a">>, <<"x">>), IdQuote(1, <<"a">>, <<"y">>)>>

\* C4: an add whose text or category is empty after trimming is rejected
\* before any mutation: the collection, the stored entry, the category list
\* and the session's last-displayed record are unchanged.
C4_RejectedAddChangesNothing ==
    [][\A textInput \in TextInputs, categoryInput \in CategoryInputs :
          ((IsBlank(textInput) \/ IsBlank(categoryInput))
           /\ AddQuoteFromInputs(textInput, categoryInput))
          => UNCHANGED <<quotes, localStorage, categorySelect, sessionStorage>>]_vars

\* An add has been rejected in a page that holds quotes and a last-displayed
\* record.
C4_Witness ==
    /\ alertMsg = Alert("Please enter both a quote and a category!")
    /\ Len(quotes) > Len(DEFAULT_QUOTES)
    /\ sessionStorage[SS_LAST_QUOTE].has

\* C5: counter monotonicity: every successful add appends a record that
\* carries an integer id, the greatest id of the collection plus one, or 1
\* when the collection holds no id.
IdOf(r) == Get(r, <<"id">>)
HasIntegerId(r) == IdOf(r).t = "number"
IdsOf(q) == {IdOf(q[i]).n : i \in {j \in 1..Len(q) : HasIntegerId(q[j])}}
MaxOf(S) == CHOOSE n \in S : \A m \in S : m <= n

C5_AddAssignsNextId ==
    [][\A textInput \in TextInputs, categoryInput \in CategoryInputs :
          (AddQuoteFromInputs(textInput, categoryInput) /\ quotes' # quotes)
          => LET new == quotes'[Len(quotes')] IN
             /\ HasIntegerId(new)
             /\ IdOf(new).n = IF IdsOf(quotes) = {} THEN 1
                              ELSE MaxOf(IdsOf(quotes)) + 1]_vars

\* C6, as claimed: for any collection C with unique ids, importing the
\* export of C yields C.
UniqueIds(C) ==
    /\ \A i \in 1..Len(C) : HasIntegerId(C[i])
    /\ \A i, j \in 1..Len(C) : IdOf(C[i]) = IdOf(C[j]) => i = j

C6_RoundTripWithUniqueIds ==
    [][\A C \in ExportedCollections :
          (/\ download = Item(JSONstringify(JArr(C), 2))
           /\ UniqueIds(C)
           /\ ImportFromJsonFile(TextFile(download.text)))
          => quotes' = C]_vars

\* C6, amended: for any collection C in which no two records have the same
\* text and the same category, importing the export of C, into the
\* collection that was exported or into an empty one, yields C.
C6_RoundTripWithoutDuplicates ==
    [][\A C \in ExportedCollections :
          (/\ download = Item(JSONstringify(JArr(C), 2))
           /\ NoDuplicates(C)
           /\ ImportFromJsonFile(TextFile(download.text)))
          => quotes' = C]_vars

\* The export of a collection of two records has been imported into an empty
\* collection, which now holds both.
C6_Witness ==
    /\ alertMsg = ImportComplete(2)
    /\ Len(quotes) = 2
    /\ NoDuplicates(quotes)
    /\ ~UniqueIds(quotes)

\* C7: after any merge of a remote snapshot no two records of the collection
\* share an id and differ.
C7_NoSharedIdAfterMerge ==
    [][(\E snapshot \in RemoteSnapshots : SyncMerge(snapshot))
          => \A i, j \in 1..Len(quotes') :
                 (HasIntegerId(quotes'[i]) /\ IdOf(quotes'[i]) = IdOf(quotes'[j]))
                 => quotes'[i] = quotes'[j]]_vars

\* C8: once the page is ready, the category list equals the distinct
\* categories of the collection in first-seen order; for an empty collection
\* it is the single placeholder.
FirstIndex(q, category) ==
    CHOOSE i \in 1..Len(q) :
        /\ Get(q[i], <<"category">>) = JStr(category)
        /\ \A j \in 1..(i - 1) : Get(q[j], <<"category">>) # JStr(category)

C8_CategoryListMatchesCollection ==
    pc = "ready" =>
        IF quotes = <<>>
        THEN categorySelect = <<Option(<<>>, <<"No categories">>)>>
        ELSE /\ \A i \in 1..Len(quotes) :
                    \E n \in 1..Len(categorySelect) :
                        JStr(categorySelect[n].value) = Get(quotes[i], <<"category">>)
             /\ \A n \in 1..Len(categorySelect) :
                    /\ categorySelect[n].textContent = categorySelect[n].value
                    /\ \E i \in 1..Len(quotes) :
                           JStr(categorySelect[n].value) = Get(quotes[i], <<"category">>)
             /\ \A n, k \in 1..Len(categorySelect) :
                    n < k => FirstIndex(quotes, categorySelect[n].value)
                             < FirstIndex(quotes, categorySelect[k].value)

\* An import has added records whose category was not in the list before.
C8_Witness ==
    /\ pc = "ready"
    /\ "added" \in DOMAIN alertMsg
    /\ alertMsg.added > 0
    /\ Len(categorySelect) > Len(DEFAULT_QUOTES)
    /\ \E n \in 1..Len(categorySelect) : categorySelect[n].value = <<"y">>

\* C9: once the page is ready, the entry stored under LS_KEY is a
\* serialization of the collection in memory.
C9_StoredEntryIsTheCollection ==
    pc = "ready" =>
        /\ localStorage[LS_KEY].has
        /\ JSONparse(localStorage[LS_KEY].text) = [ok |-> TRUE, v |-> JArr(quotes)]

\* An import has added no record, and skipped the save, after the collection
\* had grown.
C9_Witness ==
    /\ alertMsg = ImportComplete(0)
    /\ Len(quotes) > Len(DEFAULT_QUOTES)

\* C10: add, import and reset keep a collection free of records with equal
\* text and equal category: an add of a pair already present changes neither
\* the collection nor the stored entry, and no step introduces such a pair.
C10_NoDuplicateIsIntroduced ==
    [][/\ (pc = "ready" /\ NoDuplicates(quotes)) => NoDuplicates(quotes')
       /\ \A textInput \in TextInputs, categoryInput \in CategoryInputs :
              (/\ \E i \in 1..Len(quotes) :
                      SameTextAndCategory(quotes[i],
                          QuoteObj(trim(textInput), trim(categoryInput)))
               /\ AddQuoteFromInputs(textInput, categoryInput))
              => UNCHANGED <<quotes, localStorage>>]_vars

\* An add of a pair already present has been rejected in a collection free
\* of duplicates.
C10_Witness ==
    /\ alertMsg = Alert("This quote already exists.")
    /\ NoDuplicates(quotes)

====
